---------------------------- MODULE Spec2Model ----------------------------
(***************************************************************************)
(* A model of the PEDL command line (src/pedl/cli.py): the `predict`       *)
(* pipeline (pair generation, the remote-query cap, per-pair output file,  *)
(* chunked sentence retrieval with de-duplication, batched scoring and the *)
(* ranking walk) and the sharded `build_training_set` crawl, together with *)
(* the batching of BertForDistantSupervision.forward_batched.              *)
(*                                                                         *)
(* Scores are probabilities in thousandths (700 stands for 0.700); a       *)
(* printed score is in hundredths (the "%.2f" of the record line).         *)
(***************************************************************************)
EXTENDS Integers, Sequences, FiniteSets, TLC

VARIABLES
    cmd,                 \* the sub-command main() dispatches to
    pc,                  \* position of the predict run
    exit_code,           \* 0 while running / on normal end, 1 after sys.exit(1) or a failed assert
    exit_reason,         \* why the run ended early ("" when it did not)
    p1s, p2s,            \* args.p1 / args.p2 (already read from file when given as a file)
    skip_reverse,        \* args.skip_reverse
    pubtator,            \* args.pubtator is set (a local evidence store)
    cutoff,              \* args.cutoff, in thousandths
    batch_size,          \* args.batch_size
    dbs,                 \* args.dbs
    indra,               \* pedl.database (indra) can be imported
    maybe_mapped_p1s, maybe_mapped_p2s,
    pairs_to_query,
    effects,             \* history: the kinds of work done so far (model load, makedirs, ...)
    idx,                 \* 1-based position of the for loop over pairs_to_query
    path_out,            \* the local path_out (<<name1, name2>> stands for "name1-name2.txt")
    f,                   \* the open output file object: what was written, and whether any byte reached the disk
    files,               \* the output directory: path -> sequence of records of the closed file
    n_chunks,            \* chunks drawn from data_getter.get_sentences for the current pair
    probs,               \* local probs: list of per-batch score matrices, a matrix once concatenated
    all_sentences,
    processed_sentences,
    outcome,             \* history: how the last processed pair ended
    n_worker,            \* args.n_worker of every crawl worker
    triples,             \* the lines of args.triples
    pmid_answers,        \* data_getter.get_pmids, per entity
    empty_docs,          \* PMIDs whose document collection is empty
    w_pc,                \* per worker process: position
    w_seed,              \* per worker process: the iteration orders of its sets (hash seed)
    w_i,                 \* per worker process: enumerate index of the crawl loop
    w_visited,           \* history, per worker: PMIDs whose loop body ran in this run
    shard, shard_blinded,\* per worker: the two output files
    prev_shard           \* history, per worker: the files a previous run of the worker left

predict_vars == <<pc, exit_code, exit_reason, p1s, p2s, skip_reverse, pubtator, cutoff,
                  batch_size, dbs, indra, maybe_mapped_p1s, maybe_mapped_p2s,
                  pairs_to_query, effects, idx, path_out, f, files, n_chunks, probs,
                  all_sentences, processed_sentences, outcome>>

crawl_vars == <<n_worker, triples, pmid_answers, empty_docs, w_pc, w_seed, w_i,
                w_visited, shard, shard_blinded, prev_shard>>

vars == <<cmd, predict_vars, crawl_vars>>

-----------------------------------------------------------------------------
(* Bounds of the model *)

MaxChunks == 2        \* chunks get_sentences yields for one pair, at most
MaxWorkers == 2       \* largest --n_worker

-----------------------------------------------------------------------------
(* Sequence helpers *)

Range(s) == {s[i] : i \in DOMAIN s}

RECURSIVE Cat(_)
\* torch.cat: the rows of a list of matrices, in list order
Cat(ms) == IF ms = <<>> THEN <<>> ELSE Head(ms) \o Cat(Tail(ms))

RECURSIVE Repeat(_, _)
Repeat(x, n) == IF n = 0 THEN <<>> ELSE <<x>> \o Repeat(x, n - 1)


-----------------------------------------------------------------------------
(* The collaborators of predict: lookup tables, the evidence provider, the  *)
(* databases and the scoring model, each as a small table.                  *)

\* get_hgnc_symbol_to_gene_id(): HGNC symbol -> Entrez gene id
hgnc_to_gene_id == [s \in {"A", "B"} |-> IF s = "A" THEN "1" ELSE "2"]

\* get_geneid_to_name(): gene id -> display name; "2" has no entry
geneid_to_name == [g \in {"1"} |-> "A"]

\* str.isnumeric on the names the model uses
isnumeric(p) == p \in {"1", "2"}

\* the names a query may give: a symbol, a gene id, and a name that is neither
Names == {"A", "2", "ZZ"}

\* the query lists of ordinary size
SmallLists == {<<"A">>, <<"2">>, <<"ZZ">>, <<"A", "2">>}
SingleLists == {<<"A">>, <<"2">>}

\* the shapes <<len(p1s), len(p2s)>> of the large queries (one name repeated)
BigShapes == {<<10, 5>>, <<17, 3>>, <<50, 1>>, <<51, 1>>, <<100, 1>>, <<101, 1>>}

\* Sentence objects the evidence provider can return; s1 and s3 share their raw text
s1 == [text |-> "ab", text_blinded |-> "xb", pmid |-> "7"]
s2 == [text |-> "abc", text_blinded |-> "xbc", pmid |-> "8"]
s3 == [text |-> "ab", text_blinded |-> "xb", pmid |-> "9"]
s4 == [text |-> "a", text_blinded |-> "x", pmid |-> "7"]

\* the chunks data_getter.get_sentences may yield
ChunkMenu == {<<>>, <<s4>>, <<s2, s1>>, <<s1, s3>>, <<s1, s1>>, <<s3, s4>>, <<s2, s4, s1>>}

\* PEDLDataset.id_to_label
NumLabels == 7
id_to_label == <<"in-complex-with", "controls-state-change-of", "controls-phosphorylation-of",
                 "controls-transport-of", "controls-expression-of", "catalysis-precedes",
                 "interacts-with">>

\* torch.sigmoid(meta["alphas_by_rel"]) of one blinded sentence: a row of 7 scores
SentenceProbs(blinded) ==
    CASE blinded = "xb"  -> <<900, 700, 2, 2, 2, 2, 2>>
      [] blinded = "xbc" -> <<700, 14, 14, 2, 2, 2, 496>>
      [] OTHER           -> <<2, 2, 2, 2, 2, 2, 2>>

\* indra statements a database may return for a pair: class name and evidence list
st1 == [class |-> "Phosphorylation", evidence |-> <<[pmid |-> "7", source_id |-> "r1"]>>]
st2 == [class |-> "Complex",
        evidence |-> <<[pmid |-> "8", source_id |-> "r2"], [pmid |-> "9", source_id |-> "r3"]>>]

\* the answers of db.get_statements
StatementMenu == {<<>>, <<st1, st1>>, <<st2, st1>>}

Cutoffs == {10, 500, 950}
BatchSizes == {1, 2}
DbArgs == {<<>>, <<"pid">>}

NoFile == [path |-> <<>>, written |-> <<>>, on_disk |-> FALSE, open |-> FALSE]
NoOutcome == [kind |-> "none", path |-> <<>>, db_lines |-> 0, cleared |-> FALSE, pair |-> 0]

-----------------------------------------------------------------------------
(* predict, lines 53-77: name resolution, pair generation and the cap *)

\* lines 54-59: one name, mapped unless numeric
MaybeMapped(p) == IF ~isnumeric(p) THEN hgnc_to_gene_id[p] ELSE p

\* the assert of lines 56 / 64
Resolvable(p) == isnumeric(p) \/ p \in DOMAIN hgnc_to_gene_id

RECURSIVE InnerLoop(_, _, _)
\* lines 71-74: the inner loop for one p1
InnerLoop(p1, rest, skip) ==
    IF rest = <<>> THEN <<>>
    ELSE (IF skip THEN << <<p1, Head(rest)>> >>
                  ELSE << <<p1, Head(rest)>>, <<Head(rest), p1>> >>)
         \o InnerLoop(p1, Tail(rest), skip)

RECURSIVE OuterOverP2(_, _, _)
OuterOverP2(m1, rest, skip) ==
    IF rest = <<>> THEN <<>>
    ELSE Cat([k \in DOMAIN m1 |->
                IF skip THEN << <<m1[k], Head(rest)>> >>
                        ELSE << <<m1[k], Head(rest)>>, <<Head(rest), m1[k]>> >>])
         \o OuterOverP2(m1, Tail(rest), skip)

\* a variant with the two loops exchanged (p2 outer, p1 inner)
GeneratePairsP2Outer(m1, m2, skip) == OuterOverP2(m1, m2, skip)

RECURSIVE GeneratePairs(_, _, _)
\* lines 69-74: pairs_to_query
GeneratePairs(m1, m2, skip) ==
    IF m1 = <<>> THEN <<>>
    ELSE InnerLoop(Head(m1), m2, skip) \o GeneratePairs(Tail(m1), m2, skip)

\* a variant that already refuses 100 pairs
OversizedAtCap(pairs, local) == Len(pairs) >= 100 /\ ~local

\* line 75: the condition of the abort
OversizedRemoteQuery(pairs, local) == Len(pairs) > 100 /\ ~local

-----------------------------------------------------------------------------
(* predict, lines 128-162: database lines, then one chunk of sentences *)

RECURSIVE JoinField(_, _)
\* ",".join(i.<field> for i in stmt.evidence), as the list of joined items
JoinField(evidence, field) ==
    IF evidence = <<>> THEN <<>>
    ELSE <<Head(evidence)[field]>> \o JoinField(Tail(evidence), field)

\* line 137: the line of one statement (score 1.0 is 100 hundredths)
DbResult(stmt, db) ==
    [label |-> stmt.class, score |-> 100, pmid |-> JoinField(stmt.evidence, "pmid"),
     text |-> JoinField(stmt.evidence, "source_id"), source |-> db]

RECURSIVE WriteStatements(_, _, _)
\* lines 133-140: the lines written for the statements of one database, each line once;
\* seen is processed_db_results
WriteStatements(stmts, db, seen) ==
    IF stmts = <<>> THEN <<>>
    ELSE LET db_result == DbResult(Head(stmts), db)
         IN  (IF db_result \notin seen THEN <<db_result>> ELSE <<>>)
             \o WriteStatements(Tail(stmts), db, seen \cup {db_result})

RECURSIVE Insert(_, _)
\* insertion behind every element that is not longer: keeps equal lengths in arrival order
Insert(x, sorted) ==
    IF sorted = <<>> THEN <<x>>
    ELSE IF Len(Head(sorted).text) <= Len(x.text)
         THEN <<Head(sorted)>> \o Insert(x, Tail(sorted))
         ELSE <<x>> \o sorted

RECURSIVE SortedByLen(_)
\* line 147: sorted(sentences_chunk, key=lambda x: len(x.text)), a stable sort
SortedByLen(chunk) ==
    IF chunk = <<>> THEN <<>>
    ELSE Insert(chunk[Len(chunk)], SortedByLen(SubSeq(chunk, 1, Len(chunk) - 1)))

\* line 148: the filter reads processed_sentences as it was before the chunk
Unprocessed(sentences, processed) ==
    SelectSeq(sentences, LAMBDA s : s.text \notin processed)

RECURSIVE chunks(_, _)
\* pedl.utils.chunks: consecutive slices of n elements, the last one possibly shorter
chunks(lst, n) ==
    IF lst = <<>> THEN <<>>
    ELSE IF Len(lst) <= n THEN <<lst>>
    ELSE <<SubSeq(lst, 1, n)>> \o chunks(SubSeq(lst, n + 1, Len(lst)), n)

\* lines 152-161: the score matrix of one batch, one row per sentence of the batch
ProbsBatch(sentences_batch) ==
    [k \in 1..Len(sentences_batch) |-> SentenceProbs(sentences_batch[k].text_blinded)]

RECURSIVE ScoreBatches(_)
\* lines 151-162: what the loop over the batches appends to probs
ScoreBatches(batches) ==
    IF batches = <<>> THEN <<>>
    ELSE <<ProbsBatch(Head(batches))>> \o ScoreBatches(Tail(batches))

\* line 150: what the chunk adds to all_sentences
Accepted(sentences_chunk, processed) == Unprocessed(SortedByLen(sentences_chunk), processed)

-----------------------------------------------------------------------------
(* predict, lines 170-184: the ranking walk over the concatenated matrix *)

\* probs.view(-1): the cells in row-major order
Flatten(matrix) == Cat(matrix)

RECURSIVE InsertDesc(_, _)
InsertDesc(v, sorted) ==
    IF sorted = <<>> THEN <<v>>
    ELSE IF Head(sorted) >= v THEN <<Head(sorted)>> \o InsertDesc(v, Tail(sorted))
         ELSE <<v>> \o sorted

\* a variant that leaves the values in row-major order
SortNone(values) == values

RECURSIVE SortDescending(_)
\* torch.sort(..., descending=True)[0]
SortDescending(values) ==
    IF values = <<>> THEN <<>>
    ELSE InsertDesc(Head(values), SortDescending(Tail(values)))

\* (probs < args.cutoff).all()
AllBelow(matrix, c) == \A i \in DOMAIN matrix : \A j \in DOMAIN matrix[i] : matrix[i][j] < c

RECURSIVE CellsFrom(_, _, _, _)
\* torch.where(probs == max_score): the matching cells <<i, j>> in row-major order,
\* scanning from cell <<i, j>> on
CellsFrom(matrix, v, i, j) ==
    IF i > Len(matrix) THEN <<>>
    ELSE IF j > Len(matrix[i]) THEN CellsFrom(matrix, v, i + 1, 1)
    ELSE (IF matrix[i][j] = v THEN << <<i, j>> >> ELSE <<>>)
         \o CellsFrom(matrix, v, i, j + 1)

\* a variant that yields the first matching cell only
WhereFirst(matrix, v) ==
    LET all == CellsFrom(matrix, v, 1, 1)
    IN  IF all = <<>> THEN <<>> ELSE <<Head(all)>>

Where(matrix, v) == CellsFrom(matrix, v, 1, 1)

\* f"{max_score.item():.2f}": thousandths to the nearest hundredth
Format2f(v) == (v + 5) \div 10

\* line 184: the record of one cell
PedlRecord(cell, v, sentences) ==
    [label |-> id_to_label[cell[2]], score |-> Format2f(v),
     pmid |-> sentences[cell[1]].pmid, text |-> sentences[cell[1]].text,
     source |-> "PEDL"]

RECURSIVE EmitCells(_, _, _)
\* lines 181-184: one record per matching cell
EmitCells(cells, v, sentences) ==
    IF cells = <<>> THEN <<>>
    ELSE <<PedlRecord(Head(cells), v, sentences)>> \o EmitCells(Tail(cells), v, sentences)

\* a variant that skips nothing
SkippedNever(max_score, c) == FALSE

\* line 179: the value is skipped
Skipped(max_score, c) == max_score < c

RECURSIVE Walk(_, _, _, _)
\* lines 178-184: the loop over the sorted values
Walk(sorted, matrix, sentences, c) ==
    IF sorted = <<>> THEN <<>>
    ELSE (IF Skipped(Head(sorted), c) THEN <<>>
          ELSE EmitCells(Where(matrix, Head(sorted)), Head(sorted), sentences))
         \o Walk(Tail(sorted), matrix, sentences, c)

\* lines 178-184
RankedRecords(matrix, sentences, c) ==
    Walk(SortDescending(Flatten(matrix)), matrix, sentences, c)

-----------------------------------------------------------------------------
(* BertForDistantSupervision.forward and forward_batched, as far as the     *)
(* per-sentence output meta["alphas_by_rel"] goes (after the sigmoid)       *)

\* forward: one row per input sentence
Forward(input_ids) == [k \in 1..Len(input_ids) |-> SentenceProbs(input_ids[k])]

RECURSIVE ForwardEach(_)
\* forward_batched, lines 143-150: meta_all["alphas_by_rel"], one entry per batch
ForwardEach(batches) ==
    IF batches = <<>> THEN <<>>
    ELSE <<Forward(Head(batches))>> \o ForwardEach(Tail(batches))

\* forward_batched, lines 135-156: meta_all["alphas_by_rel"] after torch.cat
ForwardBatched(input_ids, bs) ==
    IF bs = 0 THEN Forward(input_ids)
    ELSE Cat(ForwardEach(chunks(input_ids, bs)))

-----------------------------------------------------------------------------
(* The output directory *)

Put(dir, path, content) ==
    [q \in DOMAIN dir \cup {path} |-> IF q = path THEN content ELSE dir[q]]

Remove(dir, path) == [q \in DOMAIN dir \ {path} |-> dir[q]]

\* os.path.getsize(path_out) == 0 while the file object is open: only what was flushed counts
SizeIsZero(file) == ~file.on_disk

\* a variant that leaves the file in place whatever its size
CloseWithoutCheck(dir, file) == Put(dir, file.path, file.written)

\* lines 166-167 / 174-175 followed by the end of the with block: the file is unlinked
\* when its size on disk is 0, and what is still buffered goes to the unlinked file
CloseAfterCheck(dir, file) ==
    IF SizeIsZero(file) THEN Remove(dir, file.path) ELSE Put(dir, file.path, file.written)

\* end of the with block, then lines 187-188: the size is read after the file is closed
CheckAfterClose(dir, path, content) ==
    IF Len(content) = 0 THEN Remove(dir, path) ELSE Put(dir, path, content)

\* lines 121-122 and 129
NameOf(g) == IF g \in DOMAIN geneid_to_name THEN geneid_to_name[g] ELSE g
PathOut(pair) == <<NameOf(pair[1]), NameOf(pair[2])>>

RECURSIVE WriteDbs(_, _, _)
\* lines 131-140: the lines of all databases, answers[k] being what database k returns
WriteDbs(names, answers, seen) ==
    IF names = <<>> THEN <<>>
    ELSE LET lines == WriteStatements(Head(answers), Head(names), seen)
         IN  lines \o WriteDbs(Tail(names), Tail(answers), seen \cup Range(lines))

-----------------------------------------------------------------------------
(* The predict run *)

\* The runs predict may be started as.
\* QueryRuns: every combination of the query lists, in remote and in local mode, with a
\* cutoff no score reaches.
QueryRuns ==
    [p1 : SmallLists, p2 : SmallLists, skip_reverse : BOOLEAN, pubtator : BOOLEAN,
     cutoff : {950}, batch_size : {2}, dbs : {<<>>}, indra : {TRUE}]

\* ScoringRuns: one name against one name, with every cutoff and batch size.
ScoringRuns ==
    [p1 : SingleLists, p2 : SingleLists, skip_reverse : BOOLEAN, pubtator : {FALSE},
     cutoff : Cutoffs, batch_size : BatchSizes, dbs : {<<>>}, indra : {TRUE}]

\* DatabaseRuns: as ScoringRuns in one direction, with a database.
DatabaseRuns ==
    [p1 : SingleLists, p2 : SingleLists, skip_reverse : {TRUE}, pubtator : {FALSE},
     cutoff : Cutoffs, batch_size : BatchSizes, dbs : DbArgs \ {<<>>}, indra : BOOLEAN]

\* LargeRuns: one name repeated, with the default options.
LargeRuns ==
    {[p1 |-> Repeat("A", sh[1]), p2 |-> Repeat("A", sh[2]), skip_reverse |-> sk,
      pubtator |-> pt, cutoff |-> 10, batch_size |-> 2, dbs |-> <<>>, indra |-> TRUE] :
        sh \in BigShapes, sk \in BOOLEAN, pt \in BOOLEAN}

PredictArgs == QueryRuns \cup ScoringRuns \cup DatabaseRuns \cup LargeRuns

InitPredict ==
    /\ \E a \in PredictArgs :
        /\ p1s = a.p1 /\ p2s = a.p2
        /\ skip_reverse = a.skip_reverse /\ pubtator = a.pubtator
        /\ cutoff = a.cutoff /\ batch_size = a.batch_size
        /\ dbs = a.dbs /\ indra = a.indra
    /\ pc = "resolve"
    /\ exit_code = 0 /\ exit_reason = ""
    /\ maybe_mapped_p1s = <<>> /\ maybe_mapped_p2s = <<>>
    /\ pairs_to_query = <<>>
    /\ effects = {}
    /\ idx = 0
    /\ path_out = <<>>
    /\ f = NoFile
    /\ files = <<>>
    /\ n_chunks = 0
    /\ probs = <<>>
    /\ all_sentences = <<>>
    /\ processed_sentences = {}
    /\ outcome = NoOutcome

IdlePredict ==
    /\ p1s = <<>> /\ p2s = <<>> /\ skip_reverse = FALSE /\ pubtator = FALSE
    /\ cutoff = 10 /\ batch_size = 1 /\ dbs = <<>> /\ indra = TRUE
    /\ pc = "idle"
    /\ exit_code = 0 /\ exit_reason = ""
    /\ maybe_mapped_p1s = <<>> /\ maybe_mapped_p2s = <<>>
    /\ pairs_to_query = <<>>
    /\ effects = {}
    /\ idx = 0
    /\ path_out = <<>>
    /\ f = NoFile
    /\ files = <<>>
    /\ n_chunks = 0
    /\ probs = <<>>
    /\ all_sentences = <<>>
    /\ processed_sentences = {}
    /\ outcome = NoOutcome

\* lines 53-67
Resolve ==
    /\ cmd = "predict" /\ pc = "resolve"
    /\ IF \A p \in Range(p1s) \cup Range(p2s) : Resolvable(p)
       THEN /\ maybe_mapped_p1s' = [k \in DOMAIN p1s |-> MaybeMapped(p1s[k])]
            /\ maybe_mapped_p2s' = [k \in DOMAIN p2s |-> MaybeMapped(p2s[k])]
            /\ pc' = "generate"
            /\ UNCHANGED <<exit_code, exit_reason>>
       ELSE /\ pc' = "exit" /\ exit_code' = 1 /\ exit_reason' = "unresolved"
            /\ UNCHANGED <<maybe_mapped_p1s, maybe_mapped_p2s>>
    /\ UNCHANGED <<cmd, p1s, p2s, skip_reverse, pubtator, cutoff, batch_size, dbs, indra,
                   pairs_to_query, effects, idx, path_out, f, files, n_chunks, probs,
                   all_sentences, processed_sentences, outcome, crawl_vars>>

\* lines 69-77
Generate ==
    /\ cmd = "predict" /\ pc = "generate"
    /\ pairs_to_query' = GeneratePairs(maybe_mapped_p1s, maybe_mapped_p2s, skip_reverse)
    /\ IF OversizedRemoteQuery(pairs_to_query', pubtator)
       THEN pc' = "exit" /\ exit_code' = 1 /\ exit_reason' = "oversized"
       ELSE pc' = "setup" /\ UNCHANGED <<exit_code, exit_reason>>
    /\ UNCHANGED <<cmd, p1s, p2s, skip_reverse, pubtator, cutoff, batch_size, dbs, indra,
                   maybe_mapped_p1s, maybe_mapped_p2s, effects, idx, path_out, f, files,
                   n_chunks, probs, all_sentences, processed_sentences, outcome, crawl_vars>>

\* lines 79-119: the model, the data getter, the output directory, the databases
Setup ==
    /\ cmd = "predict" /\ pc = "setup"
    /\ effects' = effects \cup {"model", "data_getter", "makedirs"}
    /\ IF dbs # <<>> /\ ~indra
       THEN pc' = "exit" /\ exit_code' = 1 /\ exit_reason' = "no_indra" /\ UNCHANGED idx
       ELSE pc' = "loop" /\ idx' = 1 /\ UNCHANGED <<exit_code, exit_reason>>
    /\ UNCHANGED <<cmd, p1s, p2s, skip_reverse, pubtator, cutoff, batch_size, dbs, indra,
                   maybe_mapped_p1s, maybe_mapped_p2s, pairs_to_query, path_out, f, files,
                   n_chunks, probs, all_sentences, processed_sentences, outcome, crawl_vars>>

\* lines 120-126: a pair of an entity with itself
SkipSelfPair ==
    /\ cmd = "predict" /\ pc = "loop" /\ idx <= Len(pairs_to_query)
    /\ pairs_to_query[idx][1] = pairs_to_query[idx][2]
    /\ idx' = idx + 1
    /\ UNCHANGED <<cmd, pc, exit_code, exit_reason, p1s, p2s, skip_reverse, pubtator, cutoff,
                   batch_size, dbs, indra, maybe_mapped_p1s, maybe_mapped_p2s,
                   pairs_to_query, effects, path_out, f, files, n_chunks, probs,
                   all_sentences, processed_sentences, outcome, crawl_vars>>

\* lines 120-144: open the pair's file, write the database lines, reset the locals
OpenPair ==
    /\ cmd = "predict" /\ pc = "loop" /\ idx <= Len(pairs_to_query)
    /\ pairs_to_query[idx][1] # pairs_to_query[idx][2]
    /\ path_out' = PathOut(pairs_to_query[idx])
    /\ files' = Put(files, path_out', <<>>)
    /\ \E answers \in [DOMAIN dbs -> StatementMenu] :
        LET written == WriteDbs(dbs, answers, {})
        IN  \E flushed \in (IF written = <<>> THEN {FALSE} ELSE BOOLEAN) :
                f' = [path |-> path_out', written |-> written, on_disk |-> flushed,
                      open |-> TRUE]
    /\ effects' = effects \cup {"file"} \cup (IF dbs # <<>> THEN {"get_statements"} ELSE {})
    /\ probs' = <<>> /\ all_sentences' = <<>> /\ processed_sentences' = {}
    /\ n_chunks' = 0
    /\ pc' = "chunks"
    /\ UNCHANGED <<cmd, exit_code, exit_reason, p1s, p2s, skip_reverse, pubtator, cutoff,
                   batch_size, dbs, indra, maybe_mapped_p1s, maybe_mapped_p2s,
                   pairs_to_query, idx, outcome, crawl_vars>>

\* a variant of NextChunk that scores the sorted chunk but keeps the sentences in the
\* order of arrival
NextChunkArrivalOrder ==
    /\ cmd = "predict" /\ pc = "chunks" /\ n_chunks < MaxChunks
    /\ \E sentences_chunk \in ChunkMenu :
        LET sentences == Accepted(sentences_chunk, processed_sentences)
        IN  /\ processed_sentences' = processed_sentences \cup {s.text : s \in Range(sentences)}
            /\ all_sentences' = all_sentences \o Unprocessed(sentences_chunk, processed_sentences)
            /\ probs' = probs \o ScoreBatches(chunks(sentences, batch_size))
    /\ n_chunks' = n_chunks + 1
    /\ effects' = effects \cup {"get_sentences"}
    /\ UNCHANGED <<cmd, pc, exit_code, exit_reason, p1s, p2s, skip_reverse, pubtator, cutoff,
                   batch_size, dbs, indra, maybe_mapped_p1s, maybe_mapped_p2s,
                   pairs_to_query, idx, path_out, f, files, outcome, crawl_vars>>

\* lines 146-162: one chunk of data_getter.get_sentences(p1, p2)
NextChunk ==
    /\ cmd = "predict" /\ pc = "chunks" /\ n_chunks < MaxChunks
    /\ \E sentences_chunk \in ChunkMenu :
        LET sentences == Accepted(sentences_chunk, processed_sentences)
        IN  /\ processed_sentences' = processed_sentences \cup {s.text : s \in Range(sentences)}
            /\ all_sentences' = all_sentences \o sentences
            /\ probs' = probs \o ScoreBatches(chunks(sentences, batch_size))
    /\ n_chunks' = n_chunks + 1
    /\ effects' = effects \cup {"get_sentences"}
    /\ UNCHANGED <<cmd, pc, exit_code, exit_reason, p1s, p2s, skip_reverse, pubtator, cutoff,
                   batch_size, dbs, indra, maybe_mapped_p1s, maybe_mapped_p2s,
                   pairs_to_query, idx, path_out, f, files, outcome, crawl_vars>>

\* lines 164-168: the generator is exhausted and gave no sentence
NoSentences ==
    /\ cmd = "predict" /\ pc = "chunks"
    /\ all_sentences = <<>>
    /\ files' = CloseAfterCheck(files, f)
    /\ f' = [f EXCEPT !.open = FALSE]
    /\ outcome' = [kind |-> "no_sentences", path |-> path_out, db_lines |-> Len(f.written),
                   cleared |-> FALSE, pair |-> idx]
    /\ idx' = idx + 1 /\ pc' = "loop"
    /\ effects' = effects \cup {"get_sentences"}
    /\ UNCHANGED <<cmd, exit_code, exit_reason, p1s, p2s, skip_reverse, pubtator, cutoff,
                   batch_size, dbs, indra, maybe_mapped_p1s, maybe_mapped_p2s,
                   pairs_to_query, path_out, n_chunks, probs, all_sentences,
                   processed_sentences, crawl_vars>>

\* lines 170-176: every score is under the cutoff
AllBelowCutoff ==
    /\ cmd = "predict" /\ pc = "chunks"
    /\ all_sentences # <<>>
    /\ probs' = Cat(probs)
    /\ AllBelow(probs', cutoff)
    /\ files' = CloseAfterCheck(files, f)
    /\ f' = [f EXCEPT !.open = FALSE]
    /\ outcome' = [kind |-> "below_cutoff", path |-> path_out, db_lines |-> Len(f.written),
                   cleared |-> FALSE, pair |-> idx]
    /\ idx' = idx + 1 /\ pc' = "loop"
    /\ effects' = effects \cup {"get_sentences"}
    /\ UNCHANGED <<cmd, exit_code, exit_reason, p1s, p2s, skip_reverse, pubtator, cutoff,
                   batch_size, dbs, indra, maybe_mapped_p1s, maybe_mapped_p2s,
                   pairs_to_query, path_out, n_chunks, all_sentences,
                   processed_sentences, crawl_vars>>

\* lines 170-188: the ranking walk writes the records, the file is closed and checked
RankAndWrite ==
    /\ cmd = "predict" /\ pc = "chunks"
    /\ all_sentences # <<>>
    /\ probs' = Cat(probs)
    /\ ~AllBelow(probs', cutoff)
    /\ LET content == f.written \o RankedRecords(probs', all_sentences, cutoff)
       IN  /\ files' = CheckAfterClose(files, path_out, content)
           /\ f' = [f EXCEPT !.written = content, !.on_disk = (content # <<>>), !.open = FALSE]
    /\ outcome' = [kind |-> "ranked", path |-> path_out, db_lines |-> Len(f.written),
                   cleared |-> TRUE, pair |-> idx]
    /\ idx' = idx + 1 /\ pc' = "loop"
    /\ effects' = effects \cup {"get_sentences"}
    /\ UNCHANGED <<cmd, exit_code, exit_reason, p1s, p2s, skip_reverse, pubtator, cutoff,
                   batch_size, dbs, indra, maybe_mapped_p1s, maybe_mapped_p2s,
                   pairs_to_query, path_out, n_chunks, all_sentences,
                   processed_sentences, crawl_vars>>

\* the for loop of line 120 is exhausted: predict returns
Finish ==
    /\ cmd = "predict" /\ pc = "loop" /\ idx > Len(pairs_to_query)
    /\ pc' = "done"
    /\ UNCHANGED <<cmd, exit_code, exit_reason, p1s, p2s, skip_reverse, pubtator, cutoff,
                   batch_size, dbs, indra, maybe_mapped_p1s, maybe_mapped_p2s,
                   pairs_to_query, effects, idx, path_out, f, files, n_chunks, probs,
                   all_sentences, processed_sentences, outcome, crawl_vars>>

-----------------------------------------------------------------------------
(* build_training_set: the inputs and the collaborators *)

\* Entity(cuid, type)
g1 == [type |-> "Gene", cuid |-> "1"]
c1 == [type |-> "Chemical", cuid |-> "D1"]
d1 == [type |-> "Disease", cuid |-> "X"]

\* the lines a triples file may hold (the last one has a head/tail type that is refused)
t1 == [head |-> g1, tail |-> c1, rel |-> "activates"]
t2 == [head |-> g1, tail |-> c1, rel |-> "binds"]
t3 == [head |-> c1, tail |-> g1, rel |-> "activates"]
t4 == [head |-> g1, tail |-> d1, rel |-> "binds"]

TripleFiles == (SUBSET {t1, t2, t3}) \cup {{t1, t4}}

\* PMIDs are strings of digits, kept as the sequence of their digits: "10", "2", "9"
PMIDs == {<<1, 0>>, <<2>>, <<9>>}

\* the answers of data_getter.get_pmids
PmidAnswers ==
    {[e \in {g1, c1, d1} |-> IF e = g1 THEN a ELSE IF e = c1 THEN b ELSE {}] :
        a \in {PMIDs}, b \in {PMIDs, {<<2>>, <<9>>}, {}}}

\* the sets of PMIDs whose document collection comes back empty
EmptyDocs == {{}, {<<2>>}, {<<1, 0>>}, PMIDs}

\* data_getter.get_sentences_from_document: the sentences of one document for one pair
DocSentences(pmid, head, tail) ==
    LET n == IF pmid = <<9>> /\ head = c1 THEN 0
             ELSE IF pmid = <<2>> /\ head = g1 THEN 2 ELSE 1
    IN  [k \in 1..n |-> [text |-> <<"text", pmid, head.cuid, k>>,
                         text_blinded |-> <<"blinded", pmid, head.type, k>>,
                         pmid |-> pmid]]

RECURSIVE StrLess(_, _)
\* the order of Python strings: by the first character that differs, a prefix first
StrLess(a, b) ==
    IF b = <<>> THEN FALSE
    ELSE IF a = <<>> THEN TRUE
    ELSE IF Head(a) # Head(b) THEN Head(a) < Head(b)
    ELSE StrLess(Tail(a), Tail(b))

RECURSIVE Sorted(_)
\* sorted(S) for a set of strings
Sorted(S) ==
    IF S = {} THEN <<>>
    ELSE LET least == CHOOSE x \in S : \A y \in S \ {x} : StrLess(x, y)
         IN  <<least>> \o Sorted(S \ {least})

Perms(S) == {s \in [1..Cardinality(S) -> S] : Range(s) = S}

\* iterating over a set: its elements in the order the process's hash seed gives them
Iterate(S, order) == SelectSeq(order, LAMBDA x : x \in S)

-----------------------------------------------------------------------------
(* build_training_set, lines 192-251 *)

\* lines 207-218: a head or tail type that is neither Chemical nor Gene raises ValueError
RaisesValueError(lines) ==
    \E t \in lines : ~(t.head.type \in {"Chemical", "Gene"} /\ t.tail.type \in {"Chemical", "Gene"})

\* lines 198-205: the keys of pair_to_relations
Pairs(lines) == {<<t.head, t.tail>> : t \in lines}

\* lines 198-205: pair_to_relations[pair]
pair_to_relations(lines, pair) == {t.rel : t \in {u \in lines : <<u.head, u.tail>> = pair}}

\* line 230
SharedPmids(pair, get_pmids) == get_pmids[pair[1]] \cap get_pmids[pair[2]]

\* lines 227-234: pmid_to_pairs[pmid]
pmid_to_pairs(lines, get_pmids, pmid) ==
    {pair \in Pairs(lines) : pmid \in SharedPmids(pair, get_pmids)}

\* lines 227-234: the keys of pmid_to_pairs
CoMentionPmids(lines, get_pmids) ==
    UNION {SharedPmids(pair, get_pmids) : pair \in Pairs(lines)}

\* line 237: sorted(pmid_to_pairs)
SortedPmids(lines, get_pmids) == Sorted(CoMentionPmids(lines, get_pmids))

\* a variant that counts the positions from 1
AssignedOneBased(i, n, worker_id) == ((i + 1) % n) = worker_id

\* line 238: the enumerate index i belongs to this worker
Assigned(i, n, worker_id) == (i % n) = worker_id

\* line 250 / 251: one line of the raw (or blinded) file
TrainingLine(pair, relations, sentence, field) ==
    [head_type |-> pair[1].type, head_cuid |-> pair[1].cuid,
     tail_type |-> pair[2].type, tail_cuid |-> pair[2].cuid,
     relations |-> relations, text |-> sentence[field], pmid |-> sentence.pmid]

\* lines 245-251: the lines of one pair; ",".join(relations) iterates over the set
PairLines(lines, pair, pmid, seed, field) ==
    LET sentences == DocSentences(pmid, pair[1], pair[2])
        relations == Iterate(pair_to_relations(lines, pair), seed.rels)
    IN  [k \in DOMAIN sentences |-> TrainingLine(pair, relations, sentences[k], field)]

RECURSIVE PairsLines(_, _, _, _, _)
\* lines 244-251: the loop over the pairs of the PMID
PairsLines(lines, pairs, pmid, seed, field) ==
    IF pairs = <<>> THEN <<>>
    ELSE PairLines(lines, Head(pairs), pmid, seed, field)
         \o PairsLines(lines, Tail(pairs), pmid, seed, field)

\* lines 240-251: what the loop body writes for one PMID; docs is empty when unavailable
PmidLines(lines, get_pmids, pmid, no_docs, seed, field) ==
    IF pmid \in no_docs THEN <<>>
    ELSE PairsLines(lines, Iterate(pmid_to_pairs(lines, get_pmids, pmid), seed.pairs),
                    pmid, seed, field)

RECURSIVE NextAssigned(_, _, _, _)
\* lines 237-239: the first enumerate index from i on that is not skipped (n_pmids if none)
NextAssigned(i, n_pmids, n, worker_id) ==
    IF i >= n_pmids \/ Assigned(i, n, worker_id) THEN i
    ELSE NextAssigned(i + 1, n_pmids, n, worker_id)

\* a variant in which an empty document collection ends the run (docs[0] without the test)
AfterPmidFailsOnEmpty(i, n_pmids, n, worker_id, pmid, no_docs) ==
    IF pmid \in no_docs THEN "error"
    ELSE IF NextAssigned(i + 1, n_pmids, n, worker_id) < n_pmids THEN "crawl" ELSE "done"

\* the position after the iteration for a PMID of this worker: the loop goes on while a
\* later index is this worker's, whether or not the PMID had a document
AfterPmid(i, n_pmids, n, worker_id, pmid, no_docs) ==
    IF NextAssigned(i + 1, n_pmids, n, worker_id) < n_pmids THEN "crawl" ELSE "done"

Workers == 0..(n_worker - 1)
WorkerIds == 0..(MaxWorkers - 1)

NoShard == [raw |-> <<>>, blinded |-> <<>>, exists |-> FALSE]
NoSeed == [pairs |-> <<>>, rels |-> <<>>]

InitCrawl ==
    /\ n_worker \in 1..MaxWorkers
    /\ triples \in TripleFiles
    /\ pmid_answers \in PmidAnswers
    /\ empty_docs \in EmptyDocs
    /\ w_pc = [w \in WorkerIds |-> "idle"]
    /\ w_seed = [w \in WorkerIds |-> NoSeed]
    /\ w_i = [w \in WorkerIds |-> 0]
    /\ w_visited = [w \in WorkerIds |-> {}]
    /\ shard = [w \in WorkerIds |-> <<>>]
    /\ shard_blinded = [w \in WorkerIds |-> <<>>]
    /\ prev_shard = [w \in WorkerIds |-> NoShard]

IdleCrawl ==
    /\ n_worker = 1
    /\ triples = {}
    /\ pmid_answers = [e \in {g1, c1, d1} |-> {}]
    /\ empty_docs = {}
    /\ w_pc = [w \in WorkerIds |-> "idle"]
    /\ w_seed = [w \in WorkerIds |-> NoSeed]
    /\ w_i = [w \in WorkerIds |-> 0]
    /\ w_visited = [w \in WorkerIds |-> {}]
    /\ shard = [w \in WorkerIds |-> <<>>]
    /\ shard_blinded = [w \in WorkerIds |-> <<>>]
    /\ prev_shard = [w \in WorkerIds |-> NoShard]

\* main() starts build_training_set as worker w: lines 192-239. The process gets its
\* hash seed, reads the triples, prepares the crawl and opens (truncates) its two files;
\* the loop ends at once when no PMID is this worker's.
\* One worker that has finished may be started a second time; what its first run had
\* written is remembered.
Launch(w) ==
    /\ cmd = "build_training_set"
    /\ \/ w_pc[w] = "idle"
       \/ w_pc[w] = "done" /\ \A v \in Workers : ~prev_shard[v].exists
    /\ prev_shard' = [prev_shard EXCEPT ![w] =
                         IF w_pc[w] = "done"
                         THEN [raw |-> shard[w], blinded |-> shard_blinded[w], exists |-> TRUE]
                         ELSE @]
    /\ \E po \in Perms(Pairs(triples)), ro \in Perms({t.rel : t \in triples}) :
           w_seed' = [w_seed EXCEPT ![w] = [pairs |-> po, rels |-> ro]]
    /\ IF RaisesValueError(triples)
       THEN /\ w_pc' = [w_pc EXCEPT ![w] = "error"]
            /\ UNCHANGED <<shard, shard_blinded>>
       ELSE /\ w_pc' = [w_pc EXCEPT ![w] =
                           IF NextAssigned(0, Len(SortedPmids(triples, pmid_answers)),
                                           n_worker, w)
                                < Len(SortedPmids(triples, pmid_answers))
                           THEN "crawl" ELSE "done"]
            /\ shard' = [shard EXCEPT ![w] = <<>>]
            /\ shard_blinded' = [shard_blinded EXCEPT ![w] = <<>>]
    /\ w_i' = [w_i EXCEPT ![w] = 0]
    /\ w_visited' = [w_visited EXCEPT ![w] = {}]
    /\ UNCHANGED <<cmd, predict_vars, n_worker, triples, pmid_answers, empty_docs>>

\* lines 237-251: the loop runs on to the next PMID of this worker and handles it (the
\* iterations for the PMIDs of other workers do nothing but `continue`)
CrawlPmid(w) ==
    /\ cmd = "build_training_set" /\ w_pc[w] = "crawl"
    /\ LET pmids == SortedPmids(triples, pmid_answers)
           i == NextAssigned(w_i[w], Len(pmids), n_worker, w)
       IN  /\ i < Len(pmids)
           /\ LET pmid == pmids[i + 1]
              IN  /\ shard' = [shard EXCEPT ![w] =
                         @ \o PmidLines(triples, pmid_answers, pmid, empty_docs, w_seed[w],
                                        "text")]
                  /\ shard_blinded' = [shard_blinded EXCEPT ![w] =
                         @ \o PmidLines(triples, pmid_answers, pmid, empty_docs, w_seed[w],
                                        "text_blinded")]
                  /\ w_visited' = [w_visited EXCEPT ![w] = @ \cup {pmid}]
                  /\ w_pc' = [w_pc EXCEPT ![w] = AfterPmid(i, Len(pmids), n_worker, w, pmid,
                                                                  empty_docs)]
           /\ w_i' = [w_i EXCEPT ![w] = i + 1]
    /\ UNCHANGED <<cmd, predict_vars, n_worker, triples, pmid_answers, empty_docs, w_seed,
                   prev_shard>>

-----------------------------------------------------------------------------
(* The program: main() dispatches to one sub-command *)

Init ==
    /\ cmd \in {"predict", "build_training_set"}
    /\ IF cmd = "predict" THEN InitPredict /\ IdleCrawl ELSE IdlePredict /\ InitCrawl

Next ==
    \/ Resolve
    \/ Generate
    \/ Setup
    \/ SkipSelfPair
    \/ OpenPair
    \/ NextChunk
    \/ NoSentences
    \/ AllBelowCutoff
    \/ RankAndWrite
    \/ Finish
    \/ \E w \in Workers : Launch(w)
    \/ \E w \in Workers : CrawlPmid(w)

Spec == Init /\ [][Next]_vars

-----------------------------------------------------------------------------
(* Properties of predict *)

\* a pair has been processed to its end; the locals still hold its values
PairFinished == cmd = "predict" /\ pc \in {"loop", "done"} /\ outcome.kind # "none"

\* the records of the processed pair's file that the model produced (none without a file)
LastPedlRecords ==
    IF outcome.path \in DOMAIN files
    THEN SelectSeq(files[outcome.path], LAMBDA r : r.source = "PEDL")
    ELSE <<>>

\* the cells of a matrix
Cells(matrix) == {<<i, j>> : i \in DOMAIN matrix, j \in 1..NumLabels}

\* the matrix of the processed pair (probs is still the empty list when there was no sentence)
LastMatrix == IF outcome.kind = "no_sentences" THEN <<>> ELSE probs

RecordOfCell(cell) == PedlRecord(cell, LastMatrix[cell[1]][cell[2]], all_sentences)

Occurrences(seq, x) == Cardinality({k \in DOMAIN seq : seq[k] = x})

\* C1: every PEDL record of a processed pair's file is the record of a cell of the score
\* matrix whose value is >= cutoff, and no cell whose value is < cutoff has a record
C1_ScoreAtLeastCutoff ==
    PairFinished =>
        /\ \A k \in DOMAIN LastPedlRecords :
             \E cell \in Cells(LastMatrix) :
                /\ LastMatrix[cell[1]][cell[2]] >= cutoff
                /\ LastPedlRecords[k] = RecordOfCell(cell)
        /\ \A cell \in Cells(LastMatrix) :
             LastMatrix[cell[1]][cell[2]] < cutoff
                => RecordOfCell(cell) \notin Range(LastPedlRecords)

\* a ranked pair at cutoff 0.5 whose matrix holds 0.496 (printed 0.50, under the cutoff)
\* beside cells over the cutoff
C1_Witness ==
    /\ PairFinished /\ outcome.kind = "ranked" /\ cutoff = 500
    /\ \E cell \in Cells(LastMatrix) : LastMatrix[cell[1]][cell[2]] = 496
    /\ Len(LastPedlRecords) > 0

\* C2 as stated: after a pair for which no cell clears the cutoff (no sentence included),
\* the pair's output file does not exist, whatever the databases wrote
C2_NoFileWithoutClearedCell ==
    (PairFinished /\ ~outcome.cleared) => outcome.path \notin DOMAIN files

\* C2 amended: after a pair for which no cell clears the cutoff and for which no database
\* line was written, the pair's output file does not exist
C2_NoFileWithoutAnyRecord ==
    (PairFinished /\ ~outcome.cleared /\ outcome.db_lines = 0)
        => outcome.path \notin DOMAIN files

\* a run with a database that returned no statement for the pair, sentences that all
\* score under the cutoff, and no file left
C2_Witness ==
    /\ PairFinished /\ outcome.kind = "below_cutoff" /\ dbs # <<>>
    /\ outcome.db_lines = 0 /\ all_sentences # <<>>
    /\ outcome.path \notin DOMAIN files

\* C4: the accumulated sentence list never holds two sentences with the same raw text
C4_NoDuplicateText ==
    cmd = "predict" =>
        \A i, j \in DOMAIN all_sentences :
            i # j => all_sentences[i].text # all_sentences[j].text

\* C5: after the ranking walk, a record line occurs in the file once for every pair of
\* cells <<c, d>> where c has that line, c's value is >= cutoff and d holds c's value:
\* a cell whose value is held by k cells is written k times, a unique value once
C5_TieEmission ==
    (PairFinished /\ outcome.kind = "ranked") =>
        LET above == {c \in Cells(LastMatrix) : LastMatrix[c[1]][c[2]] >= cutoff}
            same(c) == {d \in Cells(LastMatrix) :
                            LastMatrix[d[1]][d[2]] = LastMatrix[c[1]][c[2]]}
        IN  /\ \A c \in above :
                 Occurrences(LastPedlRecords, RecordOfCell(c)) =
                    Cardinality({cd \in above \X Cells(LastMatrix) :
                                    /\ RecordOfCell(cd[1]) = RecordOfCell(c)
                                    /\ cd[2] \in same(cd[1])})
            /\ Len(LastPedlRecords) =
                    Cardinality({cd \in above \X Cells(LastMatrix) : cd[2] \in same(cd[1])})

\* two sentences whose rows both hold 0.7, each of the two cells written twice, beside
\* the unique 0.9 written once
C5_Witness ==
    /\ PairFinished /\ outcome.kind = "ranked" /\ cutoff = 500
    /\ \E c, d \in Cells(LastMatrix) :
          /\ c[1] # d[1]
          /\ LastMatrix[c[1]][c[2]] = 700 /\ LastMatrix[d[1]][d[2]] = 700
          /\ all_sentences[c[1]].text # all_sentences[d[1]].text
          /\ Occurrences(LastPedlRecords, RecordOfCell(c)) = 2
          /\ Occurrences(LastPedlRecords, RecordOfCell(d)) = 2
    /\ \E c \in Cells(LastMatrix) :
          /\ LastMatrix[c[1]][c[2]] = 900
          /\ Occurrences(LastPedlRecords, RecordOfCell(c)) = 1

\* the pair list has been generated
Generated == cmd = "predict" /\ pc \notin {"resolve", "generate"} /\ exit_reason # "unresolved"

\* C6: pairs_to_query is the product of the two (mapped) lists in list order, p1 outer
\* and p2 inner; without skip_reverse each forward pair is directly followed by its
\* reverse, with skip_reverse only the forward pairs appear
C6_PairOrder ==
    Generated =>
        LET n1 == Len(maybe_mapped_p1s)
            n2 == Len(maybe_mapped_p2s)
            pos(a, b) == (a - 1) * n2 + b
        IN  IF skip_reverse
            THEN /\ Len(pairs_to_query) = n1 * n2
                 /\ \A a \in 1..n1, b \in 1..n2 :
                      pairs_to_query[pos(a, b)] = <<maybe_mapped_p1s[a], maybe_mapped_p2s[b]>>
            ELSE /\ Len(pairs_to_query) = 2 * n1 * n2
                 /\ \A a \in 1..n1, b \in 1..n2 :
                      /\ pairs_to_query[2 * pos(a, b) - 1] =
                            <<maybe_mapped_p1s[a], maybe_mapped_p2s[b]>>
                      /\ pairs_to_query[2 * pos(a, b)] =
                            <<maybe_mapped_p2s[b], maybe_mapped_p1s[a]>>

\* two names against two names with reverse pairs: eight pairs
C6_Witness ==
    /\ Generated /\ ~skip_reverse
    /\ p1s = <<"A", "2">> /\ p2s = <<"A", "2">>
    /\ pairs_to_query = << <<"1", "1">>, <<"1", "1">>, <<"1", "2">>, <<"2", "1">>,
                           <<"2", "1">>, <<"1", "2">>, <<"2", "2">>, <<"2", "2">> >>

\* C7: without a local store a pair list of more than 100 entries ends the run with exit
\* code 1 before any model, retrieval or file work; with at most 100 entries, or with a
\* local store, the run goes on
C7_RemoteCap ==
    Generated =>
        /\ (Len(pairs_to_query) > 100 /\ ~pubtator)
              => /\ pc = "exit" /\ exit_code = 1 /\ exit_reason = "oversized"
                 /\ effects = {} /\ files = <<>> /\ idx = 0
        /\ (Len(pairs_to_query) <= 100 \/ pubtator)
              => /\ exit_reason # "oversized"
                 /\ pc \in {"setup", "loop", "chunks", "done"} \/ exit_reason = "no_indra"

\* 101 pairs in remote mode: the run has ended
C7_Witness ==
    /\ Generated /\ ~pubtator /\ Len(pairs_to_query) = 101 /\ pc = "exit"

\* the blinded texts of the accumulated sentences: what the model is given
BlindedTexts == [k \in DOMAIN all_sentences |-> all_sentences[k].text_blinded]

\* the rows scored so far
ScoredRows == IF pc = "chunks" THEN Cat(probs) ELSE LastMatrix

\* C9: the concatenated score matrix has one row per accumulated sentence, row i holding
\* the scores of sentence i; every record written carries the pmid and text of a sentence
\* whose score for the record's label is the record's score; and forward_batched returns
\* the per-sentence rows in input order for every batch size (0: one call of forward)
C9_RowCorrespondence ==
    (cmd = "predict" /\ (pc = "chunks" \/ PairFinished)) =>
        /\ Len(ScoredRows) = Len(all_sentences)
        /\ \A i \in DOMAIN all_sentences :
              ScoredRows[i] = SentenceProbs(all_sentences[i].text_blinded)
        /\ PairFinished =>
              \A k \in DOMAIN LastPedlRecords :
                 \E i \in DOMAIN all_sentences, j \in 1..NumLabels :
                    /\ LastPedlRecords[k].pmid = all_sentences[i].pmid
                    /\ LastPedlRecords[k].text = all_sentences[i].text
                    /\ LastPedlRecords[k].label = id_to_label[j]
                    /\ LastPedlRecords[k].score =
                          Format2f(SentenceProbs(all_sentences[i].text_blinded)[j])
        /\ all_sentences # <<>> =>
              \A bs \in 0..(Len(all_sentences) + 1) :
                 LET out == ForwardBatched(BlindedTexts, bs)
                 IN  /\ Len(out) = Len(BlindedTexts)
                     /\ \A i \in DOMAIN BlindedTexts : out[i] = SentenceProbs(BlindedTexts[i])

\* a chunk of three sentences that arrives out of length order, scored in batches of 2,
\* after a chunk that already held one of its texts; records were written
C9_Witness ==
    /\ PairFinished /\ outcome.kind = "ranked" /\ batch_size = 2
    /\ all_sentences = <<s4, s1, s2>>
    /\ n_chunks = 2
    /\ Len(LastPedlRecords) > 0

-----------------------------------------------------------------------------
(* Properties of build_training_set *)

Crawling == cmd = "build_training_set"

\* the ordinal position of a PMID in the sorted co-mention set: the number of PMIDs before it
Position(pmid) ==
    Cardinality({q \in CoMentionPmids(triples, pmid_answers) : StrLess(q, pmid)})

\* C3: a PMID is processed by worker w only if its position p in the sorted co-mention
\* set has p mod N = w; no two workers process the same PMID; and once all N workers have
\* finished, every PMID has been processed by exactly one of them
C3_OneWorkerPerPmid ==
    Crawling =>
        /\ \A w \in Workers : \A pmid \in w_visited[w] :
              /\ pmid \in CoMentionPmids(triples, pmid_answers)
              /\ Position(pmid) % n_worker = w
        /\ \A w, v \in Workers : w # v => w_visited[w] \cap w_visited[v] = {}
        /\ (\A w \in Workers : w_pc[w] = "done") =>
              \A pmid \in CoMentionPmids(triples, pmid_answers) :
                 /\ Cardinality({w \in Workers : pmid \in w_visited[w]}) = 1
                 /\ pmid \in w_visited[Position(pmid) % n_worker]

\* two workers and the PMIDs "10" < "2" < "9": worker 0 did "10" and "9", worker 1 did "2"
C3_Witness ==
    /\ Crawling /\ n_worker = 2
    /\ \A w \in Workers : w_pc[w] = "done"
    /\ w_visited[0] = {<<1, 0>>, <<9>>}
    /\ w_visited[1] = {<<2>>}

\* C8: a worker run again on the same triples, with the same provider answers and the
\* same (n_worker, worker_id), writes the same two files as before
C8_Deterministic ==
    Crawling =>
        \A w \in Workers :
            (w_pc[w] = "done" /\ prev_shard[w].exists) =>
                /\ shard[w] = prev_shard[w].raw
                /\ shard_blinded[w] = prev_shard[w].blinded

\* the PMIDs of a worker: those at the positions p with p mod N = w
AssignedPmids(w) ==
    {pmid \in CoMentionPmids(triples, pmid_answers) : Position(pmid) % n_worker = w}

\* C10: a PMID whose document collection is empty gets no line and does not end the crawl:
\* the worker never fails on it and, once done, has gone through all its PMIDs; a pair
\* without sentences gets no PEDL record and does not end predict: the loop goes on with
\* the next pair and, once done, has gone through all pairs
C10_SkipUnavailable ==
    /\ Crawling =>
          \A w \in Workers :
             /\ \A k \in DOMAIN shard[w] : shard[w][k].pmid \notin empty_docs
             /\ \A k \in DOMAIN shard_blinded[w] : shard_blinded[w][k].pmid \notin empty_docs
             /\ w_pc[w] = "error" => RaisesValueError(triples)
             /\ w_pc[w] = "crawl" =>
                    /\ w_visited[w] = {pmid \in AssignedPmids(w) : Position(pmid) < w_i[w]}
                    /\ w_visited[w] # AssignedPmids(w)
             /\ w_pc[w] = "done" => w_visited[w] = AssignedPmids(w)
             /\ \A pmid \in w_visited[w] \ empty_docs :
                   \A pair \in pmid_to_pairs(triples, pmid_answers, pmid) :
                      Len(DocSentences(pmid, pair[1], pair[2])) > 0
                         => \E k \in DOMAIN shard[w] :
                               /\ shard[w][k].pmid = pmid
                               /\ shard[w][k].head_cuid = pair[1].cuid
    /\ (cmd = "predict" /\ outcome.kind = "no_sentences") =>
          /\ pc \in {"loop", "chunks", "done"}
          /\ exit_code = 0
          /\ idx > outcome.pair
          /\ PairFinished => LastPedlRecords = <<>>
    /\ (cmd = "predict" /\ pc = "done") =>
          /\ idx = Len(pairs_to_query) + 1
          /\ exit_code = 0

\* a worker is done, its first PMID had no document and a later one gave lines
C10_Witness ==
    /\ Crawling /\ n_worker = 1 /\ w_pc[0] = "done"
    /\ empty_docs = {<<1, 0>>}
    /\ w_visited[0] = {<<1, 0>>, <<2>>, <<9>>}
    /\ \E k \in DOMAIN shard[0] : shard[0][k].pmid = <<9>>


-----------------------------------------------------------------------------
(* The order of the records within one output file *)

\* the model-sourced records of one closed output file, in file order
PedlRecordsOf(path) == SelectSeq(files[path], LAMBDA r : r.source = "PEDL")

\* C11: in every output file of the run, the printed scores of the PEDL records are
\* non-increasing down the file: of any two PEDL records the one written earlier has a
\* score greater than or equal to that of the one written later.
C11_ScoresNonIncreasing ==
    cmd = "predict" =>
        \A path \in DOMAIN files :
            LET recs == PedlRecordsOf(path)
            IN  \A k, l \in DOMAIN recs : k < l => recs[k].score >= recs[l].score

\* a processed pair's file holds PEDL records of three different printed scores, the
\* largest first and the smallest last, with a tied score repeated in between
C11_Witness ==
    /\ PairFinished
    /\ outcome.path \in DOMAIN files
    /\ LET recs == PedlRecordsOf(outcome.path)
       IN  /\ Len(recs) >= 4
           /\ recs[1].score = 90
           /\ recs[2].score = 70 /\ recs[3].score = 70
           /\ recs[Len(recs)].score = 1
           /\ \E k \in DOMAIN recs : recs[k].score = 50

=============================================================================
